---- MODULE Spec2Model ----
(***************************************************************************)
(* A model of dvstore's HTTP layer: the mux router built by NewRouter, the *)
(* wrap adapter with writeResponse and writeError, the four record         *)
(* handlers and the definition service on top of a document collection.    *)
(* Beside it, the root command's flags as printFlags logs them, the query *)
(* helper hexQueryFixed, and app.Run with its server goroutine.            *)
(*                                                                         *)
(* Strings that the code only copies are TLA+ strings; strings the code    *)
(* looks into are sequences: a hex string is a sequence of characters, a    *)
(* header value or a message a sequence of tokens, a path a sequence of    *)
(* segments, []byte a sequence of numbers 0..255.                          *)
(***************************************************************************)
EXTENDS Integers, Sequences, FiniteSets, Bags, TLC

\* The collection holds at most MaxDocs documents; an insert into a full
\* collection fails the way any failed InsertOne does.
MaxDocs == 2

StatusOK == 200
StatusBadRequest == 400
StatusNotFound == 404
StatusRequestTimeout == 408
StatusUnsupportedMediaType == 415
StatusInternalServerError == 500

-----------------------------------------------------------------------------
(* strings, hex *)

\* strings.TrimPrefix
TrimPrefix(s, p) ==
    IF Len(s) >= Len(p) /\ SubSeq(s, 1, Len(p)) = p
    THEN SubSeq(s, Len(p) + 1, Len(s))
    ELSE s

\* strings.Contains: sub occurs in s as a contiguous run
Contains(s, sub) ==
    \E i \in 0..(Len(s) - Len(sub)) : SubSeq(s, i + 1, i + Len(sub)) = sub

HexDigits == <<"0", "1", "2", "3", "4", "5", "6", "7", "8", "9",
               "a", "b", "c", "d", "e", "f">>

IsHexDigit(c) == \E i \in 1..16 : HexDigits[i] = c

HexVal(c) == (CHOOSE i \in 1..16 : HexDigits[i] = c) - 1

\* hex.DecodeString: an odd length or a character that is no hex digit is an
\* error; otherwise each pair of digits is one byte.
DecodeString(s) ==
    IF Len(s) % 2 = 1 \/ \E i \in 1..Len(s) : ~IsHexDigit(s[i])
    THEN [ok |-> FALSE, bytes |-> <<>>]
    ELSE [ok |-> TRUE,
          bytes |-> [i \in 1..(Len(s) \div 2) |->
                        16 * HexVal(s[2 * i - 1]) + HexVal(s[2 * i])]]

\* the 0x-hex text of a byte string, as the definition's JSON carries it
EncodeHex(bytes) ==
    <<"0", "x">> \o
    [i \in 1..(2 * Len(bytes)) |->
        IF i % 2 = 1 THEN HexDigits[(bytes[(i + 1) \div 2] \div 16) + 1]
        ELSE HexDigits[(bytes[i \div 2] % 16) + 1]]

-----------------------------------------------------------------------------
(* errors *)

\* An error is the chain of its layers, outermost first; nil is the empty
\* chain.  An apiError layer carries StatusCode and Message.
NoErr == <<>>

PlainLayer(text) == [api |-> FALSE, StatusCode |-> 0, Message |-> <<text>>]

\* errors.New
NewError(text) == <<PlainLayer(text)>>

\* errors.Wrap(err, text)
Wrap(err, text) == <<PlainLayer(text)>> \o err

\* apiError{StatusCode, Message, Err}
apiError(code, msg, cause) ==
    <<[api |-> TRUE, StatusCode |-> code, Message |-> msg]>> \o cause

\* errors.As(err, &aerr): the first apiError in the chain
As(err) ==
    LET idx == {i \in 1..Len(err) : err[i].api}
    IN  IF idx = {} THEN [ok |-> FALSE, aerr |-> apiError(0, <<>>, NoErr)[1]]
        ELSE [ok |-> TRUE,
              aerr |-> err[CHOOSE i \in idx : \A j \in idx : i <= j]]

\* errors.Is(err, target) for a sentinel target
Is(err, target) == \E i \in 1..Len(err) : err[i] = target[1]

\* service.ErrNotFound: a sentinel of package service.  Package router
\* imports package service, and apiError is unexported in router, so the
\* sentinel is no apiError.
ErrNotFound == NewError("not found")

\* mongo.ErrNoDocuments
ErrNoDocuments == NewError("mongo: no documents in result")

\* context.Canceled, what ctx.Err() returns once the request is cancelled
ctxErr == NewError("context canceled")

-----------------------------------------------------------------------------
(* the router *)

Methods == {"GET", "POST", "PUT", "DELETE"}

\* the endpoint table of NewRouter, in registration order
endpoints ==
    << [Name |-> "get_definition",    Method |-> "GET",
        Path |-> <<"dv", "{config_hash}">>],
       [Name |-> "delete_definition", Method |-> "DELETE",
        Path |-> <<"dv", "{config_hash}">>],
       [Name |-> "create_definition", Method |-> "POST",
        Path |-> <<"dv">>],
       [Name |-> "add_operator",      Method |-> "PUT",
        Path |-> <<"dv", "{config_hash}">>] >>

EndpointNames == {endpoints[i].Name : i \in 1..Len(endpoints)}

\* a template segment {name} matches any non-empty segment, any other
\* segment only itself; the whole path must match, segment by segment
PathMatches(tpl, path) ==
    /\ Len(tpl) = Len(path)
    /\ \A i \in 1..Len(tpl) :
          IF tpl[i] = "{config_hash}" THEN path[i] # "" ELSE tpl[i] = path[i]

\* r.Handle(e.Path, ...): the route carries a path matcher only; e.Method
\* is not given to the router.
RouteMatches(e, method, path) == PathMatches(e.Path, path)

\* mux serves the first registered route that matches; "" when none does
\* (the NotFoundHandler).
Route(method, path) ==
    LET hit == {i \in 1..Len(endpoints) : RouteMatches(endpoints[i], method, path)}
    IN  IF hit = {} THEN ""
        ELSE endpoints[CHOOSE i \in hit : \A j \in hit : i <= j].Name

\* the endpoint the table declares for (method, path); "" when none
Declared(method, path) ==
    LET hit == {i \in 1..Len(endpoints) :
                    /\ endpoints[i].Method = method
                    /\ PathMatches(endpoints[i].Path, path)}
    IN  IF hit = {} THEN "" ELSE endpoints[CHOOSE i \in hit : TRUE].Name

-----------------------------------------------------------------------------
(* http.ResponseWriter *)

JSONType == <<"application/json">>

\* status 0: no header written yet.  header is the handler's header map
\* (its Content-Type), sent the Content-Type that went out with the status.
NewWriter == [status |-> 0, header |-> <<>>, sent |-> <<>>, body |-> <<>>]

\* The first WriteHeader commits the status and the headers set so far;
\* a later one is ignored.
WriteHeader(w, code) ==
    IF w.status # 0 THEN w
    ELSE [w EXCEPT !.status = code, !.sent = w.header]

\* w.Header().Set("Content-Type", v)
HeaderSet(w, v) == [w EXCEPT !.header = v]

\* Write commits status 200 first when no status was written.
Write(w, b) ==
    LET w1 == IF w.status = 0 THEN WriteHeader(w, StatusOK) ELSE w
    IN  [w1 EXCEPT !.body = Append(@, b)]

\* WriteHeader panics on a code outside 100..999 unless a header is out.
InvalidCode(w, code) == w.status = 0 /\ (code < 100 \/ code > 999)

-----------------------------------------------------------------------------
(* writeError, writeResponse *)

InternalMessage == <<"Internal server error">>

\* errorResponse{Code, Message} as json.Marshal writes it
errorResponse(code, msg) ==
    [kind |-> "error", code |-> code, message |-> msg]

\* writeError with the cancellation test after errors.As: an apiError keeps
\* its own status under a cancelled context.
writeErrorApiFirst(cancelled, w, err) ==
    LET found == As(err)
        aerr == IF found.ok THEN found.aerr
                ELSE IF cancelled
                THEN apiError(StatusRequestTimeout,
                              <<"client cancelled request">>, ctxErr)[1]
                ELSE apiError(StatusInternalServerError,
                              <<"Internal server error">>, err)[1]
        line == [level |-> IF aerr.StatusCode \div 100 = 4 THEN "debug" ELSE "error",
                 status_code |-> aerr.StatusCode,
                 message |-> aerr.Message]
    IN  [w |-> Write(HeaderSet(WriteHeader(w, aerr.StatusCode), <<"application/json">>),
                     [kind |-> "error", code |-> aerr.StatusCode,
                      message |-> aerr.Message]),
         log |-> <<line>>, panicked |-> FALSE, given |-> err]

\* writeError logging every status from 400 up at debug severity
writeErrorDebugFrom400(cancelled, w, err) ==
    LET err1 == IF cancelled
                THEN apiError(StatusRequestTimeout,
                              <<"client cancelled request">>, ctxErr)
                ELSE err
        found == As(err1)
        aerr == IF found.ok THEN found.aerr
                ELSE apiError(StatusInternalServerError,
                              <<"Internal server error">>, err1)[1]
        line == [level |-> IF aerr.StatusCode >= 400 THEN "debug" ELSE "error",
                 status_code |-> aerr.StatusCode,
                 message |-> aerr.Message]
    IN  [w |-> Write(HeaderSet(WriteHeader(w, aerr.StatusCode), <<"application/json">>),
                     [kind |-> "error", code |-> aerr.StatusCode,
                      message |-> aerr.Message]),
         log |-> <<line>>, panicked |-> FALSE, given |-> err]

\* writeError(ctx, w, endpoint, err); cancelled is ctx.Err() != nil.
\* The result is the writer afterwards, the lines logged, whether
\* WriteHeader panicked, and the error as it was given.
writeError(cancelled, w, err) ==
    LET err1 == IF cancelled
                THEN apiError(StatusRequestTimeout,
                              <<"client cancelled request">>, ctxErr)
                ELSE err
        found == As(err1)
        aerr == IF found.ok THEN found.aerr
                ELSE apiError(StatusInternalServerError, InternalMessage, err1)[1]
        line == [level |-> IF aerr.StatusCode \div 100 = 4 THEN "debug" ELSE "error",
                 status_code |-> aerr.StatusCode,
                 message |-> aerr.Message]
        b == errorResponse(aerr.StatusCode, aerr.Message)
    IN  IF InvalidCode(w, aerr.StatusCode)
        THEN [w |-> w, log |-> <<line>>, panicked |-> TRUE, given |-> err]
        ELSE [w |-> Write(HeaderSet(WriteHeader(w, aerr.StatusCode), JSONType), b),
              log |-> <<line>>, panicked |-> FALSE, given |-> err]

-----------------------------------------------------------------------------
(* definitions and their JSON *)

\* config hashes the model works with, as []byte
HashA == <<170>>
HashB == <<187>>
Keys == {HashA, HashB}

Operators == {"op1", "op2"}

\* A cluster.Definition, as far as this code looks at it: the key, the
\* operator set, whether VerifyHashes and VerifySignatures accept it and
\* whether json.Marshal accepts it.
Definition(h, ops, hashesOK, sigsOK, encodable) ==
    [config_hash |-> h, operators |-> ops, hashesOK |-> hashesOK,
     sigsOK |-> sigsOK, encodable |-> encodable]

\* cluster.Definition{}
ZeroDefinition == Definition(<<>>, {}, FALSE, FALSE, TRUE)

\* json.Marshal of a definition: the key goes out as 0x-hex
DefinitionJSON(d) ==
    [kind |-> "definition", config_hash |-> EncodeHex(d.config_hash),
     operators |-> d.operators, hashesOK |-> d.hashesOK, sigsOK |-> d.sigsOK]

\* json.Marshal(response)
Marshal(d) ==
    IF d.encodable THEN [ok |-> TRUE, json |-> DefinitionJSON(d), err |-> NoErr]
    ELSE [ok |-> FALSE, json |-> DefinitionJSON(ZeroDefinition),
          err |-> NewError("json: error calling MarshalJSON")]

\* json.Unmarshal(body, &def): the body must be the JSON of a definition
\* with a hex key; what decodes is a value json.Marshal takes back.
UnmarshalDefinition(body) ==
    LET h == IF body.kind = "definition"
             THEN DecodeString(TrimPrefix(body.config_hash, <<"0", "x">>))
             ELSE [ok |-> FALSE, bytes |-> <<>>]
    IN  IF ~h.ok THEN [ok |-> FALSE, def |-> ZeroDefinition]
        ELSE [ok |-> TRUE,
              def |-> Definition(h.bytes, body.operators, body.hashesOK,
                                 body.sigsOK, TRUE)]

\* json.Unmarshal(body, &req) of addOperator: an Operator and a ForkVersion
UnmarshalOperator(body) ==
    IF body.kind = "operator"
    THEN [ok |-> TRUE, Operator |-> body.operator, ForkVersion |-> body.ForkVersion]
    ELSE [ok |-> FALSE, Operator |-> "", ForkVersion |-> <<>>]

-----------------------------------------------------------------------------
(* the collection and the definition service *)

\* the documents of the collection whose config_hash is h
Matching(coll, h) == {d \in BagToSet(coll) : d.config_hash = h}

\* any failure of the round trip to the database (the network, a cancelled
\* or expired context, a full disk)
driverErr == NewError("mongo: driver error")

DriverResult(coll) == [err |-> driverErr, doc |-> <<>>, n |-> 0, coll |-> coll]

\* Collection.FindOne: one of the matching documents, ErrNoDocuments when
\* there is none
FindOne(coll, h) ==
    {DriverResult(coll)}
    \cup
    ( IF Matching(coll, h) = {}
      THEN {[err |-> ErrNoDocuments, doc |-> <<>>, n |-> 0, coll |-> coll]}
      ELSE {[err |-> NoErr, doc |-> <<d>>, n |-> 1, coll |-> coll] :
                d \in Matching(coll, h)} )

\* Collection.DeleteOne: removes one matching document, n is DeletedCount
DeleteOne(coll, h) ==
    {DriverResult(coll)}
    \cup
    ( IF Matching(coll, h) = {}
      THEN {[err |-> NoErr, doc |-> <<>>, n |-> 0, coll |-> coll]}
      ELSE {[err |-> NoErr, doc |-> <<>>, n |-> 1, coll |-> coll (-) SetToBag({d})] :
                d \in Matching(coll, h)} )

\* Collection.InsertOne: adds the document under a fresh _id, whatever the
\* collection holds
InsertOne(coll, def) ==
    {DriverResult(coll)}
    \cup
    ( IF BagCardinality(coll) < MaxDocs
      THEN {[err |-> NoErr, doc |-> <<>>, n |-> 1, coll |-> coll (+) SetToBag({def})]}
      ELSE {} )

WithOperator(d, op) == [d EXCEPT !.operators = @ \cup {op}]

\* Collection.FindOneAndUpdate with $addToSet on operators: updates one
\* matching document, ErrNoDocuments when there is none
FindOneAndUpdate(coll, h, op) ==
    {DriverResult(coll)}
    \cup
    ( IF Matching(coll, h) = {}
      THEN {[err |-> ErrNoDocuments, doc |-> <<>>, n |-> 0, coll |-> coll]}
      ELSE {[err |-> NoErr, doc |-> <<d>>, n |-> 1,
             coll |-> (coll (-) SetToBag({d})) (+) SetToBag({WithOperator(d, op)})] :
                d \in Matching(coll, h)} )

\* What a call of the service comes to: the value returned, the error, the
\* collection afterwards, and whether the round trip or the decoding failed.
Outcome(res, err, coll, fault) ==
    [res |-> res, err |-> err, store |-> coll, fault |-> fault]

\* definitionImpl.Get
Get(coll, configHash) ==
    UNION { IF Is(r.err, ErrNoDocuments)
            THEN {Outcome(<<ZeroDefinition>>,
                          Wrap(ErrNotFound, "definition not found"), coll, FALSE)}
            ELSE IF r.err # NoErr
            THEN {Outcome(<<ZeroDefinition>>,
                          Wrap(r.err, "failed to get definition"), coll, TRUE)}
            ELSE {Outcome(<<ZeroDefinition>>,
                          Wrap(NewError("bson: decode error"),
                               "failed to decode definition"), coll, TRUE),
                  Outcome(r.doc, NoErr, coll, FALSE)}
          : r \in FindOne(coll, configHash) }

\* definitionImpl.Delete
Delete(coll, configHash) ==
    { IF r.err # NoErr
      THEN Outcome(<<>>, Wrap(r.err, "failed to delete definition"), r.coll, TRUE)
      ELSE IF r.n = 0
      THEN Outcome(<<>>, Wrap(ErrNotFound, "definition not found"), r.coll, FALSE)
      ELSE Outcome(<<>>, NoErr, r.coll, FALSE)
    : r \in DeleteOne(coll, configHash) }

\* definitionImpl.Create
Create(coll, def) ==
    { IF r.err # NoErr
      THEN Outcome(<<>>, Wrap(r.err, "failed to create definition"), r.coll, TRUE)
      ELSE Outcome(<<>>, NoErr, r.coll, FALSE)
    : r \in InsertOne(coll, def) }

\* definitionImpl.AddOperator; forkVersion is not used
AddOperator(coll, configHash, forkVersion, operator) ==
    { IF Is(r.err, ErrNoDocuments)
      THEN Outcome(<<>>, Wrap(ErrNotFound, "definition not found"), r.coll, FALSE)
      ELSE IF r.err # NoErr
      THEN Outcome(<<>>, Wrap(r.err, "failed to get definition"), r.coll, TRUE)
      ELSE Outcome(<<>>, NoErr, r.coll, FALSE)
    : r \in FindOneAndUpdate(coll, configHash, operator) }

-----------------------------------------------------------------------------
(* the handlers *)

HexPrefix == <<"0", "x">>

\* hexQuery taking the first value of a parameter given more than once
hexQueryFirstValue(query, name) ==
    IF name \notin DOMAIN query \/ Len(query[name]) = 0
    THEN [resp |-> <<>>, ok |-> FALSE, err |-> <<>>]
    ELSE LET value == query[name][1]
             dec == DecodeString(TrimPrefix(value, <<"0", "x">>))
         IN  IF ~dec.ok
             THEN [resp |-> <<>>, ok |-> FALSE,
                   err |-> apiError(StatusBadRequest,
                                    <<"invalid 0x-hex query parameter ", name, " [">>
                                        \o value \o <<"]">>,
                                    NewError("encoding/hex: invalid string"))]
             ELSE [resp |-> dec.bytes, ok |-> TRUE, err |-> <<>>]

\* hexQuery(query, name): the parameter must be there exactly once
hexQuery(query, name) ==
    IF name \notin DOMAIN query \/ Len(query[name]) # 1
    THEN [resp |-> <<>>, ok |-> FALSE, err |-> NoErr]
    ELSE LET value == query[name][1]
             dec == DecodeString(TrimPrefix(value, HexPrefix))
         IN  IF ~dec.ok
             THEN [resp |-> <<>>, ok |-> FALSE,
                   err |-> apiError(StatusBadRequest,
                                    <<"invalid 0x-hex query parameter ", name, " [">>
                                        \o value \o <<"]">>,
                                    NewError("encoding/hex: invalid string"))]
             ELSE [resp |-> dec.bytes, ok |-> TRUE, err |-> NoErr]

\* copy(dst, src): the first min(len(dst), len(src)) elements
copy(dst, src) ==
    [i \in 1..Len(dst) |-> IF i <= Len(src) THEN src[i] ELSE dst[i]]

\* hexQueryFixed copying whatever length the value has
hexQueryFixedAnyLength(query, name, target) ==
    LET q == hexQuery(query, name)
    IN  IF q.err # <<>> THEN [err |-> q.err, target |-> target]
        ELSE IF ~q.ok
        THEN [err |-> apiError(StatusBadRequest,
                               <<"missing 0x-hex query parameter ", name>>, <<>>),
              target |-> target]
        ELSE [err |-> <<>>, target |-> copy(target, q.resp)]

\* hexQueryFixed(query, name, target): the error returned and the target
\* slice afterwards
hexQueryFixed(query, name, target) ==
    LET q == hexQuery(query, name)
    IN  IF q.err # NoErr THEN [err |-> q.err, target |-> target]
        ELSE IF ~q.ok
        THEN [err |-> apiError(StatusBadRequest,
                               <<"missing 0x-hex query parameter ", name>>, NoErr),
              target |-> target]
        ELSE IF Len(q.resp) # Len(target)
        THEN [err |-> apiError(StatusBadRequest,
                               <<"invalid length for 0x-hex query parameter ", name,
                                 ", expect ", ToString(Len(target)), " bytes">>,
                               NoErr),
              target |-> target]
        ELSE [err |-> NoErr, target |-> copy(target, q.resp)]

\* What a handler comes to: the service's outcome, or an early return with
\* the collection untouched.  call names the service method the handler
\* reached with its arguments (empty when it reached none); query and body
\* are the inputs as far as the handler looked at them.
NoCall == <<>>
Call(op, hash, def, operator) ==
    <<[op |-> op, hash |-> hash, def |-> def, operator |-> operator]>>

Unread == [kind |-> "unread"]

Return(coll, err, query, body) ==
    [res |-> <<>>, err |-> err, store |-> coll, fault |-> FALSE,
     call |-> NoCall, query |-> query, body |-> body]

Called(o, call, query, body) ==
    [res |-> o.res, err |-> o.err, store |-> o.store, fault |-> o.fault,
     call |-> call, query |-> query, body |-> body]

MissingConfigHash == apiError(StatusBadRequest, <<"Missing config_hash">>, NoErr)

InvalidBody ==
    apiError(StatusBadRequest, <<"Invalid body">>, NewError("json: cannot unmarshal"))

getDefinition(coll, query, body) ==
    LET q == hexQuery(query, "config_hash")
    IN  IF q.err # NoErr THEN {Return(coll, q.err, query, Unread)}
        ELSE IF ~q.ok THEN {Return(coll, MissingConfigHash, query, Unread)}
        ELSE {Called(o, Call("Get", q.resp, <<>>, ""), query, Unread) :
                o \in Get(coll, q.resp)}

deleteDefinition(coll, query, body) ==
    LET q == hexQuery(query, "config_hash")
    IN  IF q.err # NoErr THEN {Return(coll, q.err, query, Unread)}
        ELSE IF ~q.ok THEN {Return(coll, MissingConfigHash, query, Unread)}
        ELSE {Called(o, Call("Delete", q.resp, <<>>, ""), query, Unread) :
                o \in Delete(coll, q.resp)}

\* createDefinition without the call of VerifySignatures
createDefinitionNoSignatures(coll, query, body) ==
    LET u == UnmarshalDefinition(body)
    IN  IF ~u.ok THEN {Return(coll, InvalidBody, Unread, body)}
        ELSE IF ~u.def.hashesOK
        THEN {Return(coll, apiError(StatusBadRequest, <<"Invalid definition hash">>,
                                    NewError("invalid config hash")), Unread, body)}
        ELSE {Called(o, Call("Create", u.def.config_hash, <<u.def>>, ""), Unread, body) :
                o \in Create(coll, u.def)}

createDefinition(coll, query, body) ==
    LET u == UnmarshalDefinition(body)
    IN  IF ~u.ok THEN {Return(coll, InvalidBody, Unread, body)}
        ELSE IF ~u.def.hashesOK
        THEN {Return(coll, apiError(StatusBadRequest, <<"Invalid definition hash">>,
                                    NewError("invalid config hash")), Unread, body)}
        ELSE IF ~u.def.sigsOK
        THEN {Return(coll, apiError(StatusBadRequest, <<"Invalid definition signature">>,
                                    NewError("invalid signature")), Unread, body)}
        ELSE {Called(o, Call("Create", u.def.config_hash, <<u.def>>, ""), Unread, body) :
                o \in Create(coll, u.def)}

addOperator(coll, query, body) ==
    LET q == hexQuery(query, "config_hash")
        u == UnmarshalOperator(body)
        fv == DecodeString(TrimPrefix(u.ForkVersion, HexPrefix))
    IN  IF q.err # NoErr THEN {Return(coll, q.err, query, Unread)}
        ELSE IF ~q.ok THEN {Return(coll, MissingConfigHash, query, Unread)}
        ELSE IF ~u.ok THEN {Return(coll, InvalidBody, query, body)}
        ELSE IF ~fv.ok
        THEN {Return(coll, apiError(StatusBadRequest, <<"Invalid fork version hex">>,
                                    NewError("encoding/hex: invalid string")),
                     query, body)}
        ELSE {Called(o, Call("AddOperator", q.resp, <<>>, u.Operator), query, body) :
                o \in AddOperator(coll, q.resp, fv.bytes, u.Operator)}

\* the handler NewRouter wraps under each endpoint name
Handler(endpoint, coll, query, body) ==
    CASE endpoint = "get_definition"    -> getDefinition(coll, query, body)
      [] endpoint = "delete_definition" -> deleteDefinition(coll, query, body)
      [] endpoint = "create_definition" -> createDefinition(coll, query, body)
      [] endpoint = "add_operator"      -> addOperator(coll, query, body)

\* writeResponse(ctx, w, endpoint, response): response is <<>> for nil
writeResponse(cancelled, w, response) ==
    LET w1 == WriteHeader(w, StatusOK)
    IN  IF response = <<>>
        THEN [w |-> w1, log |-> <<>>, panicked |-> FALSE, given |-> NoErr]
        ELSE LET m == Marshal(response[1])
             IN  IF ~m.ok
                 THEN writeError(cancelled, w1, Wrap(m.err, "marshal response body"))
                 ELSE [w |-> Write(HeaderSet(w1, JSONType), m.json),
                       log |-> <<>>, panicked |-> FALSE, given |-> NoErr]

-----------------------------------------------------------------------------
(* what clients send *)

Paths == { <<"dv">>, <<"dv", "0xaa">>, <<"dv", "0xaa", "x">>, <<"other">> }

ContentTypes ==
    { <<>>, <<"application/json", "; charset=utf-8">>, <<"text/plain">> }

ValueA     == <<"0", "x", "a", "a">>
ValueB     == <<"0", "x", "b", "b">>
ValueBareA == <<"a", "a">>
ValueBad   == <<"0", "x", "z", "z">>

\* url.Values: config_hash absent, given once, given twice
Queries ==
    { <<>> }
    \cup { [config_hash |-> <<v>>] : v \in {ValueA, ValueB, ValueBareA, ValueBad} }
    \cup { [config_hash |-> <<ValueA, ValueB>>] }

Garbage == [kind |-> "garbage"]

DefinitionBodies ==
    { DefinitionJSON(Definition(h, ops, TRUE, TRUE, TRUE)) :
        h \in Keys, ops \in {{}, {"op1"}} }
    \cup { DefinitionJSON(Definition(HashA, {}, FALSE, TRUE, TRUE)),
           DefinitionJSON(Definition(HashA, {}, TRUE, FALSE, TRUE)) }

OperatorBody(op, fork) == [kind |-> "operator", operator |-> op, ForkVersion |-> fork]

OperatorBodies ==
    { OperatorBody("op1", <<"0", "x", "0", "1">>),
      OperatorBody("op2", <<"0", "x", "0", "1">>),
      OperatorBody("op1", <<"0", "x", "g", "1">>) }

Bodies == {Garbage} \cup DefinitionBodies \cup OperatorBodies

\* The collection outlives the process.  At start it is empty, or holds a
\* document written earlier that json.Marshal does not take.
StoredBefore == { Definition(HashA, {}, TRUE, TRUE, FALSE) }

-----------------------------------------------------------------------------
(* package cmd: the flags, as they go to the log *)

\* A flag name or value is a sequence of tokens: words, numbers and the
\* separators the URL parser looks for.
Letters == {"http", "user", "secret", "host", "path", "localhost",
            "console", "info", "false"}
Digits  == {"8080"}

Mask == "xxxxx"

\* index of the first token of s in set, 0 when there is none
IndexIn(s, set) ==
    LET hit == {i \in 1..Len(s) : s[i] \in set}
    IN  IF hit = {} THEN 0 ELSE CHOOSE i \in hit : \A j \in hit : i <= j

\* index of the last token t of s, 0 when there is none
LastIndex(s, t) ==
    LET hit == {i \in 1..Len(s) : s[i] = t}
    IN  IF hit = {} THEN 0 ELSE CHOOSE i \in hit : \A j \in hit : i >= j

\* url.getScheme: letters and digits up to a colon are the scheme; a colon
\* in front is an error; anything else in the way, or a digit in front,
\* means there is no scheme
getScheme(rawURL) ==
    LET i == IndexIn(rawURL, {":", "//", "/", "@"})
    IN  IF i = 0 \/ rawURL[i] # ":" \/ rawURL[1] \in Digits
        THEN [ok |-> TRUE, scheme |-> <<>>, rest |-> rawURL]
        ELSE IF i = 1
        THEN [ok |-> FALSE, scheme |-> <<>>, rest |-> <<>>]
        ELSE [ok |-> TRUE, scheme |-> SubSeq(rawURL, 1, i - 1),
              rest |-> SubSeq(rawURL, i + 1, Len(rawURL))]

\* url.parseHost: what follows the last colon must be a port number
parseHost(host) ==
    LET i == LastIndex(host, ":")
    IN  i = 0 \/ \A j \in (i + 1)..Len(host) : host[j] \in Digits

NoUser == <<>>

\* url.User and url.UserPassword
Userinfo(username, password, passwordSet) ==
    <<[username |-> username, password |-> password, passwordSet |-> passwordSet]>>

URL(scheme, opaque, user, host, path) ==
    [ok |-> TRUE, Scheme |-> scheme, Opaque |-> opaque, User |-> user,
     Host |-> host, Path |-> path, OmitHost |-> FALSE]

BadURL == [ok |-> FALSE, Scheme |-> <<>>, Opaque |-> <<>>, User |-> NoUser,
           Host |-> <<>>, Path |-> <<>>, OmitHost |-> FALSE]

\* url.parseAuthority: the userinfo is what stands before the last @, split
\* at its first colon into username and password
parseAuthority(scheme, authority, path) ==
    LET i == LastIndex(authority, "@")
        host == SubSeq(authority, i + 1, Len(authority))
        userinfo == SubSeq(authority, 1, i - 1)
        c == IndexIn(userinfo, {":"})
    IN  IF ~parseHost(host) THEN BadURL
        ELSE IF i = 0 THEN URL(scheme, <<>>, NoUser, host, path)
        ELSE IF c = 0
        THEN URL(scheme, <<>>, Userinfo(userinfo, <<>>, FALSE), host, path)
        ELSE URL(scheme, <<>>,
                 Userinfo(SubSeq(userinfo, 1, c - 1),
                          SubSeq(userinfo, c + 1, Len(userinfo)), TRUE),
                 host, path)

\* url.Parse, for values without query and fragment
Parse(rawURL) ==
    LET s == getScheme(rawURL)
        rest == s.rest
        slash == IndexIn(rest, {"/"})
        segment == IF slash = 0 THEN rest ELSE SubSeq(rest, 1, slash - 1)
    IN  IF ~s.ok THEN BadURL
        ELSE IF rest = <<>> THEN URL(s.scheme, <<>>, NoUser, <<>>, <<>>)
        ELSE IF rest[1] \notin {"/", "//"}
        THEN IF s.scheme # <<>> THEN URL(s.scheme, rest, NoUser, <<>>, <<>>)
             ELSE IF IndexIn(segment, {":"}) # 0 THEN BadURL
             ELSE URL(<<>>, <<>>, NoUser, <<>>, rest)
        ELSE IF rest[1] = "//"
        THEN LET after == SubSeq(rest, 2, Len(rest))
                 j == IndexIn(after, {"/"})
             IN  IF j = 0 THEN parseAuthority(s.scheme, after, <<>>)
                 ELSE parseAuthority(s.scheme, SubSeq(after, 1, j - 1),
                                     SubSeq(after, j, Len(after)))
        ELSE [URL(s.scheme, <<>>, NoUser, <<>>, rest)
                 EXCEPT !.OmitHost = s.scheme # <<>>]

\* URL.String
String(u) ==
    (IF u.Scheme # <<>> THEN u.Scheme \o <<":">> ELSE <<>>)
    \o
    ( IF u.Opaque # <<>> THEN u.Opaque
      ELSE (IF /\ u.Scheme # <<>> \/ u.Host # <<>> \/ u.User # NoUser
               /\ ~(u.OmitHost /\ u.Host = <<>> /\ u.User = NoUser)
               /\ u.Host # <<>> \/ u.Path # <<>> \/ u.User # NoUser
            THEN <<"//">> ELSE <<>>)
           \o (IF u.User = NoUser THEN <<>>
               ELSE u.User[1].username
                    \o (IF u.User[1].passwordSet
                        THEN <<":">> \o u.User[1].password ELSE <<>>)
                    \o <<"@">>)
           \o u.Host \o u.Path )

\* URL.Redacted: a password that is set is replaced, nothing else
Redacted(u) ==
    IF u.User # NoUser /\ u.User[1].passwordSet
    THEN String([u EXCEPT !.User = Userinfo(u.User[1].username, <<Mask>>, TRUE)])
    ELSE String(u)

\* redact(flag, val)
redact(flag, val) ==
    IF ~Contains(flag, <<"address">>) THEN val
    ELSE LET u == Parse(val)
         IN  IF ~u.ok THEN val ELSE Redacted(u)

\* strings.Join(vals, ",")
RECURSIVE Join(_)
Join(vals) ==
    IF Len(vals) = 0 THEN <<>>
    ELSE IF Len(vals) = 1 THEN vals[1]
    ELSE vals[1] \o <<",">> \o Join(Tail(vals))

\* A pflag.Flag: its name and its values; slice tells a pflag.SliceValue.
Flag(name, values, slice) == [Name |-> name, Value |-> values, slice |-> slice]

\* flag.Value.String(): a slice value prints as its elements in brackets
ValueString(flag) ==
    IF flag.slice THEN <<"[">> \o Join(flag.Value) \o <<"]">> ELSE flag.Value[1]

\* flagsToLogFields: one field per flag, in the order of VisitAll
flagsToLogFields(flags) ==
    [i \in 1..Len(flags) |->
        [name |-> flags[i].Name,
         val |-> IF flags[i].slice
                 THEN <<"[">>
                      \o Join([k \in 1..Len(flags[i].Value) |->
                                 redact(flags[i].Name, flags[i].Value[k])])
                      \o <<"]">>
                 ELSE redact(flags[i].Name, ValueString(flags[i]))]]

-----------------------------------------------------------------------------
(* state *)

\* store:   the documents of the definitions collection, a bag
\* req:     per connection, the request being served: wrap's position and
\*          locals, the handler's outcome, the response writer
\* posted:  per key, the definition of the latest POST answered 200 with no
\*          delete or add-operator on the key since (history)
\* deleted: per key, whether a DELETE was served with no create on the key
\*          since (history)
\* cmd:     the root command: its flags, and the fields printFlags logged
\* fixed:   a call of hexQueryFixed: its arguments, the target slice as it
\*          was and as it is, the error returned
\* app:     app.Run and the goroutine it starts: their positions, the
\*          context, the server, the channel serverErr, Run's result
VARIABLES store, req, posted, deleted, cmd, fixed, app

vars == <<store, req, posted, deleted, cmd, fixed, app>>

\* app.Run with the database connected, before NewRouter: the context not
\* cancelled, no goroutine, the channel not made, nothing returned.
\* pc is Run's position and go the goroutine's; inShutdown tells that
\* Shutdown was called on the server; active counts the connections being
\* served; shutdownCtx is the context given to Shutdown and clock the
\* seconds since it was made; via is the case select took.
Connected ==
    [pc |-> "router", go |-> "none", goErr |-> NoErr, ctxDone |-> FALSE,
     inShutdown |-> FALSE, active |-> 0, serverErr |-> <<>>,
     shutdownCtx |-> <<>>, clock |-> 0, via |-> "", err |-> NoErr]

\* RunE has not called app.Run yet
BeforeRun == [Connected EXCEPT !.pc = "none"]

\* Run waits in select, the goroutine is in ListenAndServe and serves
Serving == [Connected EXCEPT !.pc = "select", !.go = "serve"]

\* no call of hexQueryFixed: none of the handlers makes one
NotCalled ==
    [pc |-> "none", query |-> <<>>, name |-> "", before |-> <<>>,
     target |-> <<>>, err |-> NoErr]

\* the flags newRootCmd binds, with their defaults, in the order of VisitAll
DefaultFlags ==
    << Flag(<<"help">>, << <<"false">> >>, FALSE),
       Flag(<<"http-", "address">>, << <<"localhost", ":", "8080">> >>, FALSE),
       Flag(<<"log-format">>, << <<"console">> >>, FALSE),
       Flag(<<"log-level">>, << <<"info">> >>, FALSE) >>

\* RunE has the flags parsed; printFlags has not run
Parsed(flags) == [pc |-> "parsed", flags |-> flags, fields |-> <<>>]

\* RunE past printFlags, in app.Run
Running(flags) == [pc |-> "run", flags |-> flags, fields |-> flagsToLogFields(flags)]

Conns == {1, 2}

Idle ==
    [pc |-> "idle", method |-> "", path |-> <<>>, endpoint |-> "",
     ctype |-> <<>>, cancelled |-> FALSE, bodyRead |-> FALSE,
     handled |-> FALSE, query |-> Unread, body |-> Unread,
     res |-> <<>>, err |-> NoErr, fault |-> FALSE, call |-> NoCall,
     w |-> NewWriter, log |-> <<>>, panicked |-> FALSE, given |-> NoErr]

\* the request with its response written
Finished(q, out) ==
    [q EXCEPT !.pc = "done", !.w = out.w, !.log = out.log,
              !.panicked = out.panicked, !.given = out.given]

\* http.NotFound, mux's answer when no route matches
NotFound(w) ==
    Write(WriteHeader(HeaderSet(w, <<"text/plain", "; charset=utf-8">>),
                      StatusNotFound),
          [kind |-> "text", text |-> "404 page not found"])

Init ==
    /\ store \in {EmptyBag} \cup {SetToBag({d}) : d \in StoredBefore}
    /\ req = [r \in Conns |-> Idle]
    /\ posted = [h \in Keys |-> <<>>]
    /\ deleted = [h \in Keys |-> FALSE]
    /\ cmd = Running(DefaultFlags)
    /\ fixed = NotCalled
    /\ app = Serving

\* A request arrives and mux picks its route.
Arrive(r) ==
    /\ req[r].pc = "idle"
    /\ \E method \in Methods, path \in Paths :
          LET e == Route(method, path)
              q == [req[r] EXCEPT !.method = method, !.path = path, !.endpoint = e]
          IN  req' = [req EXCEPT ![r] =
                        IF e = ""
                        THEN [q EXCEPT !.pc = "done", !.w = NotFound(NewWriter)]
                        ELSE [q EXCEPT !.pc = "wrap"]]
    /\ UNCHANGED <<store, posted, deleted, cmd, fixed, app>>

\* wrap's test with the negation of strings.Contains dropped
MediaTypeOKDropNot(contentType) ==
    ~(contentType # <<>> /\ Contains(contentType, <<"application/json">>))

\* wrap's test of the Content-Type header
MediaTypeOK(contentType) ==
    ~(contentType # <<>> /\ ~Contains(contentType, JSONType))

UnsupportedMediaType(contentType) ==
    apiError(StatusUnsupportedMediaType,
             <<"unsupported media type ">> \o contentType
                 \o <<" (only application/json supported)">>,
             NoErr)

\* wrap, up to the Content-Type check
CheckContentType(r) ==
    /\ req[r].pc = "wrap"
    /\ \E ct \in ContentTypes :
          LET q == [req[r] EXCEPT !.ctype = ct]
          IN  req' = [req EXCEPT ![r] =
                        IF MediaTypeOK(ct)
                        THEN [q EXCEPT !.pc = "read"]
                        ELSE Finished(q, writeError(q.cancelled, q.w,
                                                    UnsupportedMediaType(ct)))]
    /\ UNCHANGED <<store, posted, deleted, cmd, fixed, app>>

\* wrap: io.ReadAll(r.Body), which may fail
ReadBody(r) ==
    /\ req[r].pc = "read"
    /\ \E ok \in BOOLEAN :
          LET q == [req[r] EXCEPT !.bodyRead = TRUE]
          IN  req' = [req EXCEPT ![r] =
                        IF ok
                        THEN [q EXCEPT !.pc = "handler"]
                        ELSE Finished(q, writeError(q.cancelled, q.w,
                                                    NewError("unexpected EOF")))]
    /\ UNCHANGED <<store, posted, deleted, cmd, fixed, app>>

\* history: requests count by the endpoint the table declares for their
\* method and path as well as by the handler they ran.  A delete or an
\* add-operator on a key ends the reach of the POST before it; a create on
\* a key ends the reach of the DELETE before it.
IsDelete(q, call) ==
    call # NoCall /\
    (call[1].op = "Delete" \/ Declared(q.method, q.path) = "delete_definition")

IsAddOperator(q, call) ==
    call # NoCall /\
    (call[1].op = "AddOperator" \/ Declared(q.method, q.path) = "add_operator")

IsCreate(q, call) == call # NoCall /\ call[1].op = "Create"

\* wrap: the call of the handler, with the service call it makes
Handle(r) ==
    /\ req[r].pc = "handler"
    /\ \E query \in Queries, body \in Bodies :
        \E o \in Handler(req[r].endpoint, store, query, body) :
          /\ req' = [req EXCEPT ![r] =
                        [@ EXCEPT !.pc = "respond", !.handled = TRUE,
                                  !.query = o.query, !.body = o.body,
                                  !.res = o.res, !.err = o.err,
                                  !.fault = o.fault, !.call = o.call]]
          /\ store' = o.store
          /\ posted' = IF IsDelete(req[r], o.call) \/ IsAddOperator(req[r], o.call)
                       THEN [posted EXCEPT ![o.call[1].hash] = <<>>]
                       ELSE posted
          /\ deleted' = IF IsCreate(req[r], o.call)
                        THEN [deleted EXCEPT ![o.call[1].hash] = FALSE]
                        ELSE deleted
          /\ UNCHANGED <<cmd, fixed, app>>

\* the request was served: no failed round trip, no cancellation
Served(q) == q.pc = "done" /\ q.handled /\ ~q.fault /\ ~q.cancelled

\* wrap: writeError or writeResponse, by what the handler returned
Respond(r) ==
    /\ req[r].pc = "respond"
    /\ LET q == req[r]
           out == IF q.err # NoErr THEN writeError(q.cancelled, q.w, q.err)
                  ELSE writeResponse(q.cancelled, q.w, q.res)
           f == Finished(q, out)
       IN  /\ req' = [req EXCEPT ![r] = f]
           /\ posted' = IF /\ f.method = "POST" /\ IsCreate(f, f.call)
                           /\ f.w.status = StatusOK
                        THEN [posted EXCEPT ![f.call[1].hash] = f.call[1].def]
                        ELSE posted
           /\ deleted' = IF Served(f) /\ IsDelete(f, f.call)
                         THEN [deleted EXCEPT ![f.call[1].hash] = TRUE]
                         ELSE deleted
    /\ UNCHANGED <<store, cmd, fixed, app>>

\* The client goes away: the request's context is cancelled.
Cancel(r) ==
    /\ req[r].pc \in {"wrap", "read", "handler", "respond"}
    /\ ~req[r].cancelled
    /\ req' = [req EXCEPT ![r].cancelled = TRUE]
    /\ UNCHANGED <<store, posted, deleted, cmd, fixed, app>>

\* The exchange is over; the connection takes the next request.
Finish(r) ==
    /\ req[r].pc = "done"
    /\ req' = [req EXCEPT ![r] = Idle]
    /\ UNCHANGED <<store, posted, deleted, cmd, fixed, app>>

\* one request at a time, through the router
Next ==
    \E r \in {1} :
        \/ Arrive(r)
        \/ CheckContentType(r)
        \/ ReadBody(r)
        \/ Handle(r)
        \/ Respond(r)
        \/ Cancel(r)
        \/ Finish(r)

Spec == Init /\ [][Next]_vars

-----------------------------------------------------------------------------
(* the wrapped handlers, two requests in flight *)

\* a path the endpoint's template matches
PathFor(e) == [i \in 1..Len(e.Path) |->
                 IF e.Path[i] = "{config_hash}" THEN "0xaa" ELSE e.Path[i]]

\* a request that wrap has passed on to the handler of table entry e
InHandler(e) ==
    [Idle EXCEPT !.pc = "handler", !.method = e.Method, !.path = PathFor(e),
                 !.endpoint = e.Name, !.bodyRead = TRUE]

\* what the collection may hold when the two requests meet
StoredDefinitions ==
    { Definition(h, ops, TRUE, TRUE, TRUE) : h \in Keys, ops \in {{}, {"op1"}} }

\* Each wrapped handler is an http.Handler of its own.  Two requests are
\* with their handlers at once, one on the get handler and one on the
\* delete handler, over a collection of one or two documents.
InitRace ==
    /\ \E d1 \in StoredDefinitions, d2 \in StoredDefinitions :
          store \in {SetToBag({d1}), SetToBag({d1}) (+) SetToBag({d2})}
    /\ req = [r \in Conns |-> InHandler(endpoints[r])]
    /\ posted = [h \in Keys |-> <<>>]
    /\ deleted = [h \in Keys |-> FALSE]
    /\ cmd = Running(DefaultFlags)
    /\ fixed = NotCalled
    /\ app = Serving

NextRace ==
    \E r \in Conns :
        \/ Handle(r)
        \/ Respond(r)
        \/ Cancel(r)

SpecRace == InitRace /\ [][NextRace]_vars

-----------------------------------------------------------------------------
(* wrap around any handlerFunc *)

\* errors a handlerFunc may return: apiErrors with and without status and
\* message, and errors that hold no apiError
HandlerErrors ==
    { apiError(code, msg, cause) :
        code \in {0, StatusBadRequest, StatusNotFound, StatusInternalServerError, 503},
        msg \in {<<>>, <<"Missing config_hash">>, InternalMessage},
        cause \in {NoErr, NewError("cause")} }
    \cup { NewError("boom"), Wrap(ErrNotFound, "definition not found") }

\* values a handlerFunc may return with a nil error
HandlerResults ==
    { <<>>, <<Definition(HashA, {}, TRUE, TRUE, TRUE)>>,
      <<Definition(HashA, {}, TRUE, TRUE, FALSE)>> }

\* the handler has returned res and err to wrap
Returned(e, res, err) ==
    [InHandler(e) EXCEPT !.pc = "respond", !.handled = TRUE,
                         !.res = res, !.err = err]

InitAdapter ==
    /\ store = EmptyBag
    /\ \E i \in 1..Len(endpoints) :
          \/ \E err \in HandlerErrors :
                req = [r \in Conns |-> IF r = 1 THEN Returned(endpoints[i], <<>>, err)
                                       ELSE Idle]
          \/ \E res \in HandlerResults :
                req = [r \in Conns |-> IF r = 1 THEN Returned(endpoints[i], res, NoErr)
                                       ELSE Idle]
    /\ posted = [h \in Keys |-> <<>>]
    /\ deleted = [h \in Keys |-> FALSE]
    /\ cmd = Running(DefaultFlags)
    /\ fixed = NotCalled
    /\ app = Serving

NextAdapter ==
    \E r \in {1} :
        \/ Respond(r)
        \/ Cancel(r)

SpecAdapter == InitAdapter /\ [][NextAdapter]_vars

-----------------------------------------------------------------------------
(* the root command, up to app.Run *)

\* values a user may give to an address flag: with and without scheme,
\* userinfo, port and path, a port that is no number among them
AddressValues ==
    { scheme \o slashes \o userinfo \o host \o path :
        scheme \in {<<>>, <<"http", ":">>},
        slashes \in {<<>>, <<"//">>},
        userinfo \in {<<>>, <<"user", "@">>, <<"user", ":", "secret", "@">>,
                      <<":", "secret", "@">>},
        host \in {<<"host">>, <<"host", ":", "8080">>, <<"host", ":", "secret">>},
        path \in {<<>>, <<"/", "path">>} }

\* elements of a multi-valued address flag
SliceElements ==
    { <<"http", ":", "//", "user", ":", "secret", "@", "host">>,
      <<"http", ":", "//", "user", "@", "host", "/", "path">>,
      <<"host", ":", "8080">> }

\* flag sets handed to flagsToLogFields: the command's own, and one flag
\* of either kind under a name with and without "address"
FlagSets ==
    {DefaultFlags}
    \cup { <<Flag(name, <<v>>, FALSE)>> :
             name \in {<<"http-", "address">>, <<"log-level">>},
             v \in AddressValues }
    \cup { <<Flag(<<"peer-", "address", "es">>, vals, TRUE)>> :
             vals \in {<<a>> : a \in SliceElements}
                      \cup {<<a, b>> : a \in SliceElements, b \in SliceElements} }

InitCmd ==
    /\ store = EmptyBag
    /\ req = [r \in Conns |-> Idle]
    /\ posted = [h \in Keys |-> <<>>]
    /\ deleted = [h \in Keys |-> FALSE]
    /\ cmd \in {Parsed(flags) : flags \in FlagSets}
    /\ fixed = NotCalled
    /\ app = BeforeRun

\* printFlags: log.Info "Parsed config" with the fields of the flags
printFlags ==
    /\ cmd.pc = "parsed"
    /\ cmd' = Running(cmd.flags)
    /\ UNCHANGED <<store, req, posted, deleted, fixed, app>>

NextCmd == printFlags

SpecCmd == InitCmd /\ [][NextCmd]_vars

-----------------------------------------------------------------------------
(* hexQueryFixed on any query *)

\* values of a parameter: hex of one and two bytes with and without 0x,
\* of no byte, of odd length, and with a letter that is no hex digit
FixedValues ==
    { ValueA, ValueB, ValueBareA, ValueBad, <<>>, <<"0", "x">>,
      <<"0", "x", "a">>, <<"0", "x", "a", "a", "b", "b">> }

\* url.Values with the parameter slot absent, given once, given twice
FixedQueries ==
    { <<>> }
    \cup { [slot |-> <<v>>] : v \in FixedValues }
    \cup { [slot |-> <<ValueA, ValueA>>], [slot |-> <<ValueA, ValueB>>] }

FixedNames == {"slot", "root"}

\* target slices of length 0, 1 and 2
FixedTargets == { <<>>, <<0>>, <<7>>, <<1, 2>> }

InitFixed ==
    /\ store = EmptyBag
    /\ req = [r \in Conns |-> Idle]
    /\ posted = [h \in Keys |-> <<>>]
    /\ deleted = [h \in Keys |-> FALSE]
    /\ cmd = Running(DefaultFlags)
    /\ \E query \in FixedQueries, name \in FixedNames, target \in FixedTargets :
          fixed = [pc |-> "call", query |-> query, name |-> name,
                   before |-> target, target |-> target, err |-> NoErr]
    /\ app = Serving

\* the call of hexQueryFixed runs
CallHexQueryFixed ==
    /\ fixed.pc = "call"
    /\ LET out == hexQueryFixed(fixed.query, fixed.name, fixed.target)
       IN  fixed' = [fixed EXCEPT !.pc = "returned", !.target = out.target,
                                  !.err = out.err]
    /\ UNCHANGED <<store, req, posted, deleted, cmd, app>>

NextFixed == CallHexQueryFixed

SpecFixed == InitFixed /\ [][NextFixed]_vars

-----------------------------------------------------------------------------
(* each wrapped handler on its own *)

\* What NewRouter hands to r.Handle for a table entry is an http.Handler
\* of its own, whatever route leads to it.  One request is with the handler
\* of any of the four entries, over a collection of up to two documents.
InitHandlers ==
    /\ \E d1 \in StoredDefinitions, d2 \in StoredDefinitions :
          store \in {EmptyBag, SetToBag({d1}), SetToBag({d1}) (+) SetToBag({d2})}
    /\ \E i \in 1..Len(endpoints) :
          req = [r \in Conns |-> IF r = 1 THEN InHandler(endpoints[i]) ELSE Idle]
    /\ posted = [h \in Keys |-> <<>>]
    /\ deleted = [h \in Keys |-> FALSE]
    /\ cmd = Running(DefaultFlags)
    /\ fixed = NotCalled
    /\ app = Serving

NextHandlers ==
    \E r \in {1} :
        \/ Handle(r)
        \/ Respond(r)
        \/ Cancel(r)

SpecHandlers == InitHandlers /\ [][NextHandlers]_vars

-----------------------------------------------------------------------------
(* app.Run: the server goroutine, select, Shutdown *)

\* connections served at once, at most
MaxActive == 2

\* make(chan error, 1)
ChanCap == 1

\* context.WithTimeout(context.Background(), 5*time.Second)
ShutdownSeconds == 5

WithTimeout(parent, seconds) == <<[parent |-> parent, timeout |-> seconds]>>

\* http.ErrServerClosed, what ListenAndServe returns once Shutdown was called
ErrServerClosed == NewError("http: Server closed")

\* what ListenAndServe returns when it cannot listen or accept
ErrListen == NewError("listen tcp: address already in use")
ErrAccept == NewError("accept tcp: too many open files")

\* what Shutdown returns besides nil: the deadline of its context, or the
\* error of closing the listener
DeadlineExceeded == NewError("context deadline exceeded")
ErrClose == NewError("close tcp: use of closed network connection")

\* a send on a channel without buffer: it needs the receiver to wait
CanSendUnbuffered(ch, receiving) == ch = <<>> /\ receiving

\* a send on serverErr: the channel takes a value while its buffer has
\* room, whether a receiver waits or not
CanSend(ch, receiving) == Len(ch) < ChanCap

InitRun ==
    /\ store = EmptyBag
    /\ req = [r \in Conns |-> Idle]
    /\ posted = [h \in Keys |-> <<>>]
    /\ deleted = [h \in Keys |-> FALSE]
    /\ cmd = Running(DefaultFlags)
    /\ fixed = NotCalled
    /\ app = Connected

\* NewDefinition, NewRouter (which returns no error), the server, the channel
MakeServer ==
    /\ app.pc = "router"
    /\ app' = [app EXCEPT !.pc = "go"]
    /\ UNCHANGED <<store, req, posted, deleted, cmd, fixed>>

\* go func() { serverErr <- server.ListenAndServe() }()
Go ==
    /\ app.pc = "go"
    /\ app' = [app EXCEPT !.pc = "select", !.go = "listen"]
    /\ UNCHANGED <<store, req, posted, deleted, cmd, fixed>>

\* The goroutine enters ListenAndServe: it returns ErrServerClosed when
\* Shutdown was called already, fails to listen, or starts to serve.
ListenAndServe ==
    /\ app.go = "listen"
    /\ \/ app.inShutdown
          /\ app' = [app EXCEPT !.go = "send", !.goErr = ErrServerClosed]
       \/ ~app.inShutdown
          /\ \/ app' = [app EXCEPT !.go = "serve"]
             \/ app' = [app EXCEPT !.go = "send", !.goErr = ErrListen]
    /\ UNCHANGED <<store, req, posted, deleted, cmd, fixed>>

\* A connection is accepted and served.
Accept ==
    /\ app.go = "serve" /\ ~app.inShutdown
    /\ app.active < MaxActive
    /\ app' = [app EXCEPT !.active = @ + 1]
    /\ UNCHANGED <<store, req, posted, deleted, cmd, fixed>>

\* A connection served comes to its end.
ConnDone ==
    /\ app.active > 0
    /\ app' = [app EXCEPT !.active = @ - 1]
    /\ UNCHANGED <<store, req, posted, deleted, cmd, fixed>>

\* Serving fails: ListenAndServe returns the error.
ServeFails ==
    /\ app.go = "serve" /\ ~app.inShutdown
    /\ app' = [app EXCEPT !.go = "send", !.goErr = ErrAccept]
    /\ UNCHANGED <<store, req, posted, deleted, cmd, fixed>>

\* Shutdown has closed the listener: ListenAndServe returns ErrServerClosed.
ServeClosed ==
    /\ app.go = "serve" /\ app.inShutdown
    /\ app' = [app EXCEPT !.go = "send", !.goErr = ErrServerClosed]
    /\ UNCHANGED <<store, req, posted, deleted, cmd, fixed>>

\* serverErr <- the error ListenAndServe returned
Send ==
    /\ app.go = "send"
    /\ CanSend(app.serverErr, app.pc = "select")
    /\ app' = [app EXCEPT !.go = "done", !.serverErr = Append(@, app.goErr)]
    /\ UNCHANGED <<store, req, posted, deleted, cmd, fixed>>

\* The caller's context is cancelled.
CtxCancel ==
    /\ ~app.ctxDone
    /\ app.pc # "returned"
    /\ app' = [app EXCEPT !.ctxDone = TRUE]
    /\ UNCHANGED <<store, req, posted, deleted, cmd, fixed>>

\* select, case <-ctx.Done(): the shutdown context is made and Shutdown is
\* called, which closes the listener
SelectCtxDone ==
    /\ app.pc = "select" /\ app.ctxDone
    /\ app' = [app EXCEPT !.pc = "shutdown", !.via = "ctx",
                          !.shutdownCtx = WithTimeout("Background", ShutdownSeconds),
                          !.clock = 0, !.inShutdown = TRUE]
    /\ UNCHANGED <<store, req, posted, deleted, cmd, fixed>>

\* A second passes while Shutdown waits.
Tick ==
    /\ app.pc = "shutdown"
    /\ app.clock < app.shutdownCtx[1].timeout
    /\ app' = [app EXCEPT !.clock = @ + 1]
    /\ UNCHANGED <<store, req, posted, deleted, cmd, fixed>>

\* Shutdown returns: the listener's close error or nil once no connection
\* is being served, the context's error once its deadline has passed.  Run
\* returns the error wrapped, or goes on to return nil.
ShutdownReturns ==
    /\ app.pc = "shutdown"
    /\ \E e \in {NoErr, ErrClose, DeadlineExceeded} :
          /\ IF e = DeadlineExceeded
             THEN app.clock >= app.shutdownCtx[1].timeout
             ELSE app.active = 0
          /\ app' = [app EXCEPT !.pc = "deferred",
                                !.err = IF e = NoErr THEN NoErr
                                        ELSE Wrap(e, "failed to shutdown server")]
    /\ UNCHANGED <<store, req, posted, deleted, cmd, fixed>>

\* select, case err := <-serverErr
SelectServerErr ==
    /\ app.pc = "select" /\ app.serverErr # <<>>
    /\ app' = [app EXCEPT !.pc = "deferred", !.via = "serverErr",
                          !.serverErr = Tail(@),
                          !.err = Wrap(Head(app.serverErr), "server error")]
    /\ UNCHANGED <<store, req, posted, deleted, cmd, fixed>>

\* The deferred calls run (cancel, client.Disconnect, the log of a fatal
\* error) and Run returns err.
RunReturn ==
    /\ app.pc = "deferred"
    /\ app' = [app EXCEPT !.pc = "returned"]
    /\ UNCHANGED <<store, req, posted, deleted, cmd, fixed>>

NextRun ==
    \/ MakeServer
    \/ Go
    \/ ListenAndServe
    \/ Accept
    \/ ConnDone
    \/ ServeFails
    \/ ServeClosed
    \/ Send
    \/ CtxCancel
    \/ SelectCtxDone
    \/ Tick
    \/ ShutdownReturns
    \/ SelectServerErr
    \/ RunReturn

SpecRun == InitRun /\ [][NextRun]_vars

\* Run's own steps and the goroutine's are taken when they can be: the Go
\* scheduler runs every goroutine that is ready, and time passes.  Nothing
\* makes a context be cancelled, a server fail or a connection end.
FairRun ==
    /\ WF_vars(MakeServer) /\ WF_vars(Go)
    /\ WF_vars(SelectCtxDone \/ SelectServerErr)
    /\ WF_vars(Tick) /\ WF_vars(ShutdownReturns) /\ WF_vars(RunReturn)
    /\ WF_vars(ListenAndServe) /\ WF_vars(ServeClosed) /\ WF_vars(Send)

FairSpecRun == SpecRun /\ FairRun

-----------------------------------------------------------------------------
(* properties of the router and the adapter *)

\* the responses the properties speak of
ErrorBody(code, msg) == <<errorResponse(code, msg)>>

CancelledMessage == <<"client cancelled request">>

\* the key a request's handler passed to the service
KeyOf(q) == q.call[1].hash

\* C1: every request is dispatched to the endpoint whose method and path
\* template both match it, and a (method, path) pair the endpoint table does
\* not hold gets the router's 404.
C1_DispatchByMethodAndPath ==
    \A r \in Conns :
        req[r].pc # "idle" =>
            /\ req[r].endpoint = Declared(req[r].method, req[r].path)
            /\ Declared(req[r].method, req[r].path) = "" =>
                  (req[r].pc = "done" /\ req[r].w.status = StatusNotFound)

\* C2: when the collection holds no document for the key, the error the
\* service returns for it reaches the client as status 404 with code 404 in
\* the body.
C2_NotFoundIs404 ==
    \A r \in Conns :
        (Served(req[r]) /\ Is(req[r].err, ErrNotFound)) =>
            /\ req[r].w.status = StatusNotFound
            /\ Len(req[r].w.body) = 1
            /\ req[r].w.body[1].code = StatusNotFound

\* C3: an error given to writeError that holds no apiError, with the
\* context not cancelled, is answered with status 500 and the body
\* {500, "Internal server error"}, whatever the error is.
C3_UnclassifiedIs500 ==
    \A r \in Conns :
        ( /\ req[r].pc = "done"
          /\ req[r].given # NoErr
          /\ ~As(req[r].given).ok
          /\ ~req[r].cancelled ) =>
            /\ req[r].w.status = StatusInternalServerError
            /\ req[r].w.body = ErrorBody(StatusInternalServerError, InternalMessage)

\* wrap gave the error to writeError itself: the body could not be read, or
\* the handler returned an error
ClassifiedByWrap(q) ==
    /\ q.pc = "done"
    /\ q.given # NoErr
    /\ \/ q.bodyRead /\ ~q.handled
       \/ q.handled /\ q.err # NoErr

\* C5: when the context is cancelled at the time wrap classifies a failed
\* body read or a handler error, the answer is status 408 with the message
\* "client cancelled request", whatever the error was.
C5_CancelledIs408 ==
    \A r \in Conns :
        (ClassifiedByWrap(req[r]) /\ req[r].cancelled) =>
            /\ req[r].w.status = StatusRequestTimeout
            /\ req[r].w.body = ErrorBody(StatusRequestTimeout, CancelledMessage)

\* C5, reached: a handler returned an apiError with status 400 under a
\* cancelled context, and the client got 408.
C5_Witness ==
    \E r \in Conns :
        /\ ClassifiedByWrap(req[r]) /\ req[r].cancelled /\ req[r].handled
        /\ As(req[r].err).ok
        /\ As(req[r].err).aerr.StatusCode = StatusBadRequest
        /\ req[r].w.status = StatusRequestTimeout

\* a Content-Type that is there and does not hold "application/json"
NotJSON(ct) == ct # <<>> /\ ~Contains(ct, JSONType)

\* wrap has looked at the request's Content-Type and it is not JSON
RefusedType(q) == q.pc \notin {"idle", "wrap"} /\ NotJSON(q.ctype)

\* C6 as claimed: a request with a Content-Type that is not JSON is answered
\* with status 415, its body is not read, its handler not run.
C6_Always415 ==
    \A r \in Conns :
        RefusedType(req[r]) =>
            /\ req[r].pc = "done"
            /\ req[r].w.status = StatusUnsupportedMediaType
            /\ ~req[r].bodyRead
            /\ ~req[r].handled

\* C6 as amended: in the step in which wrap finds a Content-Type that is not
\* JSON the request is answered, with 415, or with 408 when its context is
\* cancelled by then; the body is not read, the handler is not run and the
\* collection stays as it is.
C6_RefusedBeforeHandler ==
    [][ \A r \in Conns :
          (req[r].pc = "wrap" /\ req'[r].pc # "wrap" /\ NotJSON(req'[r].ctype)) =>
              /\ req'[r].pc = "done"
              /\ req'[r].w.status =
                    IF req[r].cancelled THEN StatusRequestTimeout
                    ELSE StatusUnsupportedMediaType
              /\ Len(req'[r].w.body) = 1
              /\ req'[r].w.body[1].code = req'[r].w.status
              /\ ~req'[r].bodyRead
              /\ ~req'[r].handled
              /\ req'[r].call = NoCall
              /\ store' = store ]_vars

\* C6, reached: a text/plain request was answered 415 with no body read.
C6_Witness ==
    \E r \in Conns :
        /\ RefusedType(req[r])
        /\ req[r].ctype = <<"text/plain">>
        /\ req[r].w.status = StatusUnsupportedMediaType
        /\ ~req[r].bodyRead /\ ~req[r].handled

\* the handler returned a value that json.Marshal does not take
MarshalFailed(q) ==
    /\ q.pc = "done" /\ q.handled /\ q.err = NoErr
    /\ q.res # <<>> /\ ~Marshal(q.res[1]).ok

\* C7: when the handler's result cannot be serialized the client gets status
\* 500 with a JSON error body, and no 200 went out before.
C7_MarshalFailureIs500 ==
    \A r \in Conns :
        (MarshalFailed(req[r]) /\ ~req[r].cancelled) =>
            /\ req[r].w.status = StatusInternalServerError
            /\ req[r].w.body = ErrorBody(StatusInternalServerError, InternalMessage)

\* a GET that ran the get handler on a key and was served
ServedGet(q) ==
    /\ Served(q) /\ q.method = "GET" /\ q.call # NoCall /\ q.call[1].op = "Get"

\* C8: after a POST of a valid definition was answered 200, a GET for its
\* config_hash, with no delete and no add-operator on that key in between,
\* is answered 200 with the definition that was posted.
C8_RoundTrip ==
    \A r \in Conns :
        (ServedGet(req[r]) /\ posted[KeyOf(req[r])] # <<>>) =>
            /\ req[r].w.status = StatusOK
            /\ req[r].w.body = <<DefinitionJSON(posted[KeyOf(req[r])][1])>>

\* C9: after a DELETE for a key was served, a GET for the key, with no
\* create for it in between, is answered 404.
C9_DeleteThenGet404 ==
    \A r \in Conns :
        (ServedGet(req[r]) /\ deleted[KeyOf(req[r])]) =>
            req[r].w.status = StatusNotFound

-----------------------------------------------------------------------------
(* properties of writeError on any apiError, and of get against delete *)

\* writeError was given an apiError itself
GivenApiError(q) ==
    q.pc = "done" /\ q.given # NoErr /\ q.given[1].api

\* C4: an apiError with StatusCode zero is answered with status 500 and code
\* 500, one with an empty Message with the message "Internal server error";
\* a status that is not zero and a message that is not empty go out as given.
C4_ZeroDefaults ==
    \A r \in Conns :
        (GivenApiError(req[r]) /\ ~req[r].cancelled) =>
            LET a == req[r].given[1]
                w == req[r].w
            IN  /\ Len(w.body) = 1
                /\ w.status = IF a.StatusCode = 0 THEN StatusInternalServerError
                              ELSE a.StatusCode
                /\ w.body[1].code = w.status
                /\ w.body[1].message = IF a.Message = <<>> THEN InternalMessage
                                       ELSE a.Message

\* a delete of key h went through
DeleteDone(h) ==
    \E r \in Conns :
        /\ req[r].call # NoCall /\ req[r].call[1].op = "Delete"
        /\ KeyOf(req[r]) = h /\ req[r].handled /\ req[r].err = NoErr

-----------------------------------------------------------------------------
(* properties of the adapter's outcome and of its log *)

\* the client's response is writeResponse's own: status 200, no error body
BySuccessPath(q) ==
    /\ q.err = NoErr /\ q.given = NoErr
    /\ q.w.status = StatusOK
    /\ \A i \in 1..Len(q.w.body) : q.w.body[i].kind # "error"

\* the client's response is writeError's: the status it wrote and the error
\* body with that code
ByErrorPath(q) ==
    /\ q.err # NoErr /\ q.given = q.err
    /\ q.w.status # 0
    /\ Len(q.w.body) = 1
    /\ q.w.body[1].kind = "error"
    /\ q.w.body[1].code = q.w.status

\* C11: a request whose handler was invoked is answered by the success path
\* or by the error path, by one of them and not by both: the one status the
\* client gets and the body come from the same path.
C11_OneTerminalOutcome ==
    \A r \in Conns :
        (req[r].pc = "done" /\ req[r].handled) =>
            (BySuccessPath(req[r]) \/ ByErrorPath(req[r]))

\* writeError ran for the request
ErrorHandled(q) == q.pc = "done" /\ q.given # NoErr

\* C12: a request that writeError answers has exactly one classification
\* line in its log, with the status code of the error response, at debug
\* severity when that code is in [400,500) and at error severity otherwise;
\* a request writeError did not run for has none.
C12_OneLogLineBySeverity ==
    \A r \in Conns :
        req[r].pc = "done" =>
            IF ErrorHandled(req[r])
            THEN /\ Len(req[r].log) = 1
                 /\ Len(req[r].w.body) = 1
                 /\ req[r].log[1].status_code = req[r].w.body[1].code
                 /\ req[r].log[1].message = req[r].w.body[1].message
                 /\ req[r].log[1].level =
                       IF /\ req[r].log[1].status_code >= 400
                          /\ req[r].log[1].status_code < 500
                       THEN "debug" ELSE "error"
            ELSE req[r].log = <<>>

\* C12, reached: the 408 of a cancelled request, whose handler had returned
\* an error with no apiError in it, logged at debug severity.
C12_Witness ==
    \E r \in Conns :
        /\ ErrorHandled(req[r]) /\ req[r].cancelled
        /\ ~As(req[r].given).ok
        /\ req[r].w.status = StatusRequestTimeout
        /\ req[r].log = <<[level |-> "debug", status_code |-> StatusRequestTimeout,
                           message |-> CancelledMessage]>>

-----------------------------------------------------------------------------
(* properties of the handlers' validation *)

\* the handler returned an apiError with status 400 and this message
Is400(err, msg) ==
    /\ As(err).ok
    /\ As(err).aerr.StatusCode = StatusBadRequest
    /\ As(err).aerr.Message = msg

\* the client got status 400 and this message
Answered400(w, msg) ==
    /\ w.status = StatusBadRequest
    /\ w.body = ErrorBody(StatusBadRequest, msg)

CreateMessages ==
    << <<"Invalid body">>, <<"Invalid definition hash">>,
       <<"Invalid definition signature">> >>

\* the message the create handler owes to a body, <<>> for a body it takes
CreateRefusal(body) ==
    LET u == UnmarshalDefinition(body)
    IN  IF ~u.ok THEN CreateMessages[1]
        ELSE IF ~u.def.hashesOK THEN CreateMessages[2]
        ELSE IF ~u.def.sigsOK THEN CreateMessages[3]
        ELSE <<>>

\* C13: the create handler changes the collection only for a body that
\* decodes and passes the hash check and the signature check, and then by
\* inserting that definition.  A body that does not decode, one that fails
\* the hash check and one that fails the signature check each make the
\* handler return status 400 with a message of its own, without a call of
\* the service and with the collection unchanged, and that status and
\* message are the client's answer unless the request was cancelled.
C13_CreateValidates ==
    [][ \A r \in Conns :
          req'[r].endpoint = "create_definition" =>
            /\ \A i, j \in 1..3 : i # j => CreateMessages[i] # CreateMessages[j]
            /\ (req[r].pc = "handler" /\ req'[r].pc = "respond") =>
                  LET m == CreateRefusal(req'[r].body)
                  IN  IF m # <<>>
                      THEN /\ Is400(req'[r].err, m)
                           /\ req'[r].call = NoCall
                           /\ store' = store
                      ELSE /\ req'[r].call # NoCall
                           /\ req'[r].call[1].op = "Create"
                           /\ store' # store =>
                                 store' = store (+) SetToBag(
                                     {UnmarshalDefinition(req'[r].body).def})
            /\ ( /\ req[r].pc = "respond" /\ req'[r].pc = "done"
                 /\ ~req[r].cancelled
                 /\ CreateRefusal(req[r].body) # <<>> ) =>
                  Answered400(req'[r].w, CreateRefusal(req[r].body)) ]_vars

\* C13, reached: a definition whose signatures do not verify was refused
\* with 400 "Invalid definition signature" and no call of the service.
C13_Witness ==
    \E r \in Conns :
        /\ req[r].pc = "done" /\ req[r].endpoint = "create_definition"
        /\ req[r].method = "POST"
        /\ req[r].handled /\ req[r].call = NoCall
        /\ CreateRefusal(req[r].body) = CreateMessages[3]
        /\ Answered400(req[r].w, CreateMessages[3])

\* the ForkVersion of the body is not hex
BadForkVersion(body) ==
    /\ UnmarshalOperator(body).ok
    /\ ~DecodeString(TrimPrefix(UnmarshalOperator(body).ForkVersion, HexPrefix)).ok

\* A PUT to /dv/{config_hash} with a hex config_hash in the query, served.
\* A body the handler did not look at stands for every body a client may
\* send, the ones with a ForkVersion that is not hex among them.
PutWithBadForkVersion(q) ==
    /\ Served(q) /\ q.method = "PUT"
    /\ PathMatches(endpoints[4].Path, q.path)
    /\ q.query # Unread /\ hexQuery(q.query, "config_hash").ok
    /\ (q.body = Unread \/ BadForkVersion(q.body))

\* C14: a PUT to /dv/{config_hash} with a hex config_hash in the query and
\* a body whose ForkVersion is not hex is answered with status 400 and the
\* message "Invalid fork version hex", without a call of the service.
C14_BadForkVersionIs400 ==
    \A r \in Conns :
        PutWithBadForkVersion(req[r]) =>
            /\ Answered400(req[r].w, <<"Invalid fork version hex">>)
            /\ req[r].call = NoCall

\* the handlers that take the key from the query
KeyedEndpoints == {"get_definition", "delete_definition", "add_operator"}

\* config_hash is not in the query exactly once
NoSingleValue(query) ==
    "config_hash" \notin DOMAIN query \/ Len(query["config_hash"]) # 1

\* config_hash is in the query once, with a value that is not hex
NotHexValue(query) ==
    /\ ~NoSingleValue(query)
    /\ ~DecodeString(TrimPrefix(query["config_hash"][1], HexPrefix)).ok

\* C15: the get, delete and add-operator handlers return status 400
\* "Missing config_hash" for a query without config_hash or with more than
\* one, and status 400 with a message that names config_hash for a value
\* that is not hex; they make no call of the service in either case, and the
\* 400 with that message is the client's answer unless the request was
\* cancelled.
C15_ConfigHashChecked ==
    \A r \in Conns :
        (req[r].handled /\ req[r].endpoint \in KeyedEndpoints) =>
            LET q == req[r]
                answered == q.pc = "done" /\ ~q.cancelled
            IN  /\ NoSingleValue(q.query) =>
                      /\ Is400(q.err, <<"Missing config_hash">>)
                      /\ q.call = NoCall
                      /\ answered => Answered400(q.w, <<"Missing config_hash">>)
                /\ NotHexValue(q.query) =>
                      /\ As(q.err).ok
                      /\ As(q.err).aerr.StatusCode = StatusBadRequest
                      /\ Contains(As(q.err).aerr.Message, <<"config_hash">>)
                      /\ q.call = NoCall
                      /\ answered => Answered400(q.w, As(q.err).aerr.Message)

\* C15, reached: the add-operator handler refused a config_hash given twice
\* with 400 "Missing config_hash".
C15_Witness ==
    \E r \in Conns :
        /\ req[r].pc = "done" /\ req[r].handled
        /\ req[r].endpoint = "add_operator"
        /\ req[r].query # Unread
        /\ "config_hash" \in DOMAIN req[r].query
        /\ Len(req[r].query["config_hash"]) = 2
        /\ Answered400(req[r].w, <<"Missing config_hash">>)
        /\ req[r].call = NoCall

-----------------------------------------------------------------------------
(* properties of the response headers *)

\* the handler returned a value and json.Marshal took it
SucceededWithValue(q) ==
    /\ q.pc = "done" /\ q.handled /\ q.err = NoErr
    /\ q.res # <<>> /\ Marshal(q.res[1]).ok

\* C16: a response with a value has status 200 and went out with the header
\* Content-Type: application/json, and so did every error response, with its
\* status.
C16_JSONContentTypeSent ==
    \A r \in Conns :
        /\ SucceededWithValue(req[r]) =>
              /\ req[r].w.status = StatusOK
              /\ req[r].w.sent = JSONType
        /\ (ErrorHandled(req[r]) /\ ~req[r].panicked) =>
              /\ req[r].w.status = req[r].w.body[1].code
              /\ req[r].w.sent = JSONType

-----------------------------------------------------------------------------
(* properties of the flags in the log *)

\* the value parses as a URL with userinfo in it
HasUserinfo(val) == Parse(val).ok /\ Parse(val).User # NoUser

\* the URL without its userinfo
OtherComponents(u) == [u EXCEPT !.User = NoUser]

\* C17: in the logged field of a flag whose name contains "address", for
\* every value of the flag that parses as a URL with userinfo, neither the
\* username nor the password of that value occurs, and the field of a
\* single-valued flag is the same URL in every other component.
C17_NoCredentialsLogged ==
    cmd.pc = "run" =>
        \A i \in 1..Len(cmd.flags) :
            Contains(cmd.flags[i].Name, <<"address">>) =>
                \A k \in 1..Len(cmd.flags[i].Value) :
                    LET val == cmd.flags[i].Value[k]
                        user == Parse(val).User[1]
                        logged == cmd.fields[i].val
                    IN  HasUserinfo(val) =>
                            /\ user.username # <<>> =>
                                  ~Contains(logged, user.username)
                            /\ user.password # <<>> =>
                                  ~Contains(logged, user.password)
                            /\ ~cmd.flags[i].slice =>
                                  /\ Parse(logged).ok
                                  /\ OtherComponents(Parse(logged))
                                        = OtherComponents(Parse(val))

-----------------------------------------------------------------------------
(* properties of hexQueryFixed *)

\* how the three messages of hexQueryFixed begin
FixedMessages ==
    << "missing 0x-hex query parameter ",
       "invalid length for 0x-hex query parameter ",
       "invalid 0x-hex query parameter " >>

\* the call returned an apiError with status 400 whose message begins so
Fixed400(begin) ==
    /\ As(fixed.err).ok
    /\ As(fixed.err).aerr.StatusCode = StatusBadRequest
    /\ As(fixed.err).aerr.Message[1] = begin
    /\ Contains(As(fixed.err).aerr.Message, <<fixed.name>>)

\* C18: hexQueryFixed returns a 400 "missing" error when the parameter is
\* not in the query, and also when it is there more than once; a 400
\* "invalid" error when its value is not hex; a 400 "invalid length" error
\* when the decoded value is not as long as target.  The three messages
\* differ.  On each of these errors target is as it was; otherwise no error
\* is returned and target holds the decoded bytes.
C18_HexQueryFixed ==
    fixed.pc = "returned" =>
        LET present == fixed.name \in DOMAIN fixed.query
            once == present /\ Len(fixed.query[fixed.name]) = 1
            dec == DecodeString(TrimPrefix(fixed.query[fixed.name][1], HexPrefix))
        IN  /\ \A i, j \in 1..3 : i # j => FixedMessages[i] # FixedMessages[j]
            /\ IF ~once
               THEN Fixed400(FixedMessages[1]) /\ fixed.target = fixed.before
               ELSE IF ~dec.ok
               THEN Fixed400(FixedMessages[3]) /\ fixed.target = fixed.before
               ELSE IF Len(dec.bytes) # Len(fixed.before)
               THEN Fixed400(FixedMessages[2]) /\ fixed.target = fixed.before
               ELSE fixed.err = NoErr /\ fixed.target = dec.bytes

\* C18, reached: a value of one byte was written over a target of one byte
\* that held something else.
C18_Witness ==
    /\ fixed.pc = "returned"
    /\ fixed.err = NoErr
    /\ fixed.before = <<7>>
    /\ fixed.target = <<170>>

-----------------------------------------------------------------------------
(* properties of the collection *)

\* the number of documents of the collection with key h
Count(coll, h) ==
    BagCardinality([d \in Matching(coll, h) |-> CopiesIn(d, coll)])

\* C19: the collection holds at most one document per config_hash.
C19_OnePerConfigHash ==
    \A h \in Keys : Count(store, h) <= 1

\* fork versions a request may carry, decoded
ForkVersions == { <<>>, <<1>>, <<2>> }

\* the step is a call of AddOperator by the add-operator handler
AddOperatorStep(r) ==
    /\ req[r].pc = "handler" /\ req'[r].pc = "respond"
    /\ req'[r].call # NoCall
    /\ req'[r].call[1].op = "AddOperator"

-----------------------------------------------------------------------------
(* properties of app.Run *)

\* ListenAndServe has returned
ServerFailed == app.go \in {"send", "done"}

\* what Run may return after case <-ctx.Done(): nil or the wrapped error of
\* a Shutdown called with a fresh context of five seconds
ReturnedAfterShutdown ==
    /\ app.via = "ctx" /\ app.ctxDone /\ app.inShutdown
    /\ app.shutdownCtx = WithTimeout("Background", 5)
    /\ app.err \in {NoErr, Wrap(ErrClose, "failed to shutdown server"),
                    Wrap(DeadlineExceeded, "failed to shutdown server")}

\* what Run returns after case err := <-serverErr: the wrapped error of
\* ListenAndServe
ReturnedServerError ==
    /\ app.via = "serverErr" /\ app.go = "done" /\ app.goErr # NoErr
    /\ app.err = Wrap(app.goErr, "server error")

\* C21: once the context is cancelled or ListenAndServe has returned, Run
\* returns; what it returns is nil or the wrapped error of Shutdown, called
\* with a fresh context of five seconds, when select took the cancellation,
\* and the wrapped server error when select took the channel.  The
\* goroutine's send always finds room in the channel, and the goroutine
\* finishes.
C21_RunReturns ==
    /\ [](app.pc = "returned" => (ReturnedAfterShutdown \/ ReturnedServerError))
    /\ [](app.go = "send" => Len(app.serverErr) < ChanCap)
    /\ ((app.ctxDone \/ ServerFailed) ~> (app.pc = "returned"))
    /\ ((app.ctxDone \/ ServerFailed) ~> (app.go = "done"))

\* C21, reached: Run returned the wrapped deadline error of Shutdown while a
\* connection was still being served, and the goroutine has sent
\* ErrServerClosed.
C21_Witness ==
    /\ app.pc = "returned" /\ app.via = "ctx"
    /\ app.err = Wrap(DeadlineExceeded, "failed to shutdown server")
    /\ app.active > 0
    /\ app.go = "done" /\ app.serverErr = <<ErrServerClosed>>

====
